---- MODULE Spec2Model ----
(***************************************************************************)
(* Model of the BDA pipeline (bda_svc/pipeline/model.py and                *)
(* bda_svc/pipeline/utilities.py): construction of BDAPipeline with the    *)
(* model acquisition of VLMRunner, and the analyze call with its           *)
(* detect / normalize / compose / generate stages.                         *)
(* A second part models the command-line program (bda_svc/app.py main     *)
(* with its input search, and the search of bda_svc/inputs.py) together   *)
(* with the legacy pipeline it constructs (bda_svc/model.py).             *)
(*                                                                         *)
(* A Python str is modelled as a sequence of atoms.  An atom is a single   *)
(* character ("v", ",", "\n", ...) or a piece of text the code only ever   *)
(* handles as a whole ("{categories}", "TARGET CATEGORY: ", ...).          *)
(***************************************************************************)
EXTENDS Integers, Sequences, FiniteSets, TLC

(***************************************************************************)
(* Bounds of the model.                                                    *)
(***************************************************************************)
\* longest model response enumerated for the classifier
MaxLen == 4
\* longest label list returned by an injected detector
MaxDet == 2

None == "None"

(***************************************************************************)
(* str primitives                                                          *)
(***************************************************************************)
\* the characters str.strip() removes when called without argument
Whitespace == {" ", "\n", "\t"}

RECURSIVE LStrip(_, _)
\* the left half of str.strip(chars)
LStrip(s, chars) ==
    IF s # << >> /\ Head(s) \in chars THEN LStrip(Tail(s), chars) ELSE s

RECURSIVE RStrip(_, _)
\* the right half of str.strip(chars)
RStrip(s, chars) ==
    IF s # << >> /\ s[Len(s)] \in chars
    THEN RStrip(SubSeq(s, 1, Len(s) - 1), chars)
    ELSE s

\* str.strip(chars): every leading and trailing atom of chars is removed
Strip(s, chars) == RStrip(LStrip(s, chars), chars)

\* str.lower() on one atom
LowerAtom(a) ==
    CASE a = "V" -> "v"
      [] a = "S" -> "s"
      [] a = ".PNG" -> ".png"
      [] OTHER -> a

\* str.lower()
Lower(s) == [i \in 1..Len(s) |-> LowerAtom(s[i])]

\* str.upper() on one atom
UpperAtom(a) ==
    CASE a = "v" -> "V"
      [] a = "s" -> "S"
      [] a = "u" -> "U"
      [] OTHER -> a

\* str.upper()
Upper(s) == [i \in 1..Len(s) |-> UpperAtom(s[i])]

RECURSIVE Replace(_, _, _)
\* str.replace(old, new) for a one-atom old: every occurrence is replaced,
\* and the inserted text is not scanned again
Replace(s, old, new) ==
    IF s = << >> THEN << >>
    ELSE (IF Head(s) = old THEN new ELSE <<Head(s)>>) \o Replace(Tail(s), old, new)

RECURSIVE SplitFrom(_, _, _)
SplitFrom(s, sep, cur) ==
    IF s = << >> THEN <<cur>>
    ELSE IF Head(s) = sep THEN <<cur>> \o SplitFrom(Tail(s), sep, << >>)
    ELSE SplitFrom(Tail(s), sep, Append(cur, Head(s)))

\* str.split(sep): the fields between the separators, empty fields kept
Split(s, sep) == SplitFrom(s, sep, << >>)

RECURSIVE Join(_, _)
\* sep.join(parts)
Join(parts, sep) ==
    IF parts = << >> THEN << >>
    ELSE IF Len(parts) = 1 THEN parts[1]
    ELSE parts[1] \o sep \o Join(Tail(parts), sep)

\* x in list
InList(x, list) == \E i \in 1..Len(list) : list[i] = x

(***************************************************************************)
(* Documents on storage (config.yaml, doctrine.yaml) as yaml.safe_load     *)
(* sees them.  A document is missing, malformed, a top-level list, or a    *)
(* mapping; a mapping keeps its keys in document order.                    *)
(***************************************************************************)
K_V == <<"v">>
K_S == <<"s">>
K_SV == <<"s", "_", "v">>
RESERVED == <<"functional_damage_definitions">>

\* a structured doctrine entry with a physical_damage_definitions section
DictEntry(text) == [type |-> "dict", pdd |-> <<text>>, text |-> << >>]
\* a structured doctrine entry without that section
BareEntry == [type |-> "dict", pdd |-> << >>, text |-> << >>]
\* a doctrine value that is a plain string
StrEntry(text) == [type |-> "str", pdd |-> << >>, text |-> text]
\* what dict.get returns for a key the mapping does not hold
NoEntry == [type |-> "none", pdd |-> << >>, text |-> << >>]

Item(k, v) == [key |-> k, val |-> v]
Mapping(items) == [kind |-> "mapping", items |-> items]
Missing == [kind |-> "missing", items |-> << >>]
Malformed == [kind |-> "malformed", items |-> << >>]
TopList == [kind |-> "list", items |-> << >>]

FDD == Item(RESERVED, StrEntry(<<"F">>))
\* a block scalar: the text ends with a line break
FDD_BLOCK == Item(RESERVED, StrEntry(<<"F", "\n", "G", "\n">>))

\* vehicle and structure, both structured
DoctrineVS ==
    Mapping(<<Item(K_V, DictEntry(<<" ", "d1", "\n">>)),
              Item(K_S, DictEntry(<<"d2">>)), FDD>>)
\* structure first; structure has no section, s_v is structured
DoctrineSV ==
    Mapping(<<Item(K_S, BareEntry), Item(K_V, DictEntry(<<"d3">>)),
              Item(K_SV, DictEntry(<<"d4">>)), FDD_BLOCK>>)
\* the entry of structure is a plain string, not a structured entry
DoctrineFlat ==
    Mapping(<<FDD, Item(K_V, DictEntry(<<"d1">>)), Item(K_S, StrEntry(<<"d2">>))>>)
\* no functional_damage_definitions key
DoctrineNoFdd == Mapping(<<Item(K_V, DictEntry(<<"d1">>))>>)

\* the doctrine documents the storage may hold
Doctrines == {DoctrineVS, DoctrineSV, DoctrineFlat, DoctrineNoFdd, Missing, TopList}

\* dict.keys(), in document order
Keys(m) == [i \in 1..Len(m.items) |-> m.items[i].key]

\* key in dict
HasKey(m, k) == \E i \in 1..Len(m.items) : m.items[i].key = k

\* dict.get(key)
Get(m, k) ==
    IF HasKey(m, k)
    THEN m.items[CHOOSE i \in 1..Len(m.items) : m.items[i].key = k].val
    ELSE NoEntry

(***************************************************************************)
(* Classifier: detect_objects, the normalization of the model response     *)
(***************************************************************************)
\* at most one leading and one trailing atom of chars are removed
StripOne(s, chars) ==
    LET l == IF s # << >> /\ Head(s) \in chars THEN Tail(s) ELSE s
    IN  IF l # << >> /\ l[Len(l)] \in chars THEN SubSeq(l, 1, Len(l) - 1) ELSE l

\* a different cleaner: one layer of quotes is removed and no more
CleanLabelOneLayer(raw) ==
    Lower(StripOne(Strip(raw, Whitespace), {"\"", "'"}))

\* raw.strip().strip('"').strip("'").lower()
CleanLabel(raw) ==
    Lower(Strip(Strip(Strip(raw, Whitespace), {"\""}), {"'"}))

\* response.replace("\n", ",").split(",")
Candidates(response) == Split(Replace(response, "\n", <<",">>), ",")

RECURSIVE CollectLabels(_, _, _)
\* the loop that appends each clean candidate that is a category and new
CollectLabels(cands, categories, labels) ==
    IF cands = << >> THEN labels
    ELSE LET label == CleanLabel(Head(cands))
         IN  CollectLabels(Tail(cands), categories,
                 IF InList(label, categories) /\ ~InList(label, labels)
                 THEN Append(labels, label)
                 ELSE labels)

\* a buggy normalizer: no vocabulary filter and no guard for a blank response
NormalizeUnfiltered(response, categories) ==
    LET cands == Candidates(response)
    IN  [i \in 1..Len(cands) |-> CleanLabel(cands[i])]

\* a buggy normalizer: candidates are collected from the last to the first
NormalizeReversed(response, categories) ==
    LET cands == Candidates(response)
    IN  CollectLabels([i \in 1..Len(cands) |-> cands[Len(cands) + 1 - i]],
                      categories, << >>)

\* the labels detect_objects keeps from a model response
NormalizeLabels(response, categories) ==
    IF response = << >> \/ Strip(response, Whitespace) = << >>
    THEN << >>
    ELSE CollectLabels(Candidates(response), categories, << >>)

(***************************************************************************)
(* DoctrineComposer: format_pda_doctrine, format_fda_doctrine              *)
(***************************************************************************)
TARGET == "TARGET CATEGORY: "
PDD_TITLE == <<"PHYSICAL DAMAGE DEFINITIONS", ":">>
SENTINEL == <<"NO TARGET DOCTRINE AVAILABLE.">>
FDA_TITLE == <<"SCENE LEVEL FUNCTIONAL DAMAGE DEFINITIONS:">>
NONE_TEXT == <<"NONE">>

\* key.replace("_", " ").upper()
Title(key) == Upper(Replace(key, "_", <<" ">>))

\* a buggy renderer: an entry that is absent or not structured is not skipped
BlockLinesNoSkip(key, entry) ==
    <<<<TARGET>> \o Title(key)>>
    \o (IF entry.pdd = << >> THEN << >>
        ELSE <<PDD_TITLE, Strip(entry.pdd[1], Whitespace), << >> >>)

\* the lines one category appends to output
BlockLines(key, entry) ==
    IF entry.type # "dict" THEN << >>
    ELSE <<<<TARGET>> \o Title(key)>>
         \o (IF entry.pdd = << >> THEN << >>
             ELSE <<PDD_TITLE, Strip(entry.pdd[1], Whitespace), << >> >>)

RECURSIVE PdaLines(_, _)
\* the list output after the loop over the categories
PdaLines(categories, doctrine) ==
    IF categories = << >> THEN << >>
    ELSE BlockLines(Head(categories), Get(doctrine, Head(categories)))
         \o PdaLines(Tail(categories), doctrine)

\* a buggy renderer: no sentinel, the text is empty when no block was made
format_pda_doctrine_blank(categories, doctrine) ==
    Strip(Join(PdaLines(categories, doctrine), <<"\n">>), Whitespace)

\* format_pda_doctrine on the parsed doctrine mapping
format_pda_doctrine(categories, doctrine) ==
    LET output == PdaLines(categories, doctrine)
    IN  IF output # << >>
        THEN Strip(Join(output, <<"\n">>), Whitespace)
        ELSE SENTINEL

\* format_fda_doctrine on the parsed doctrine mapping
format_fda_doctrine(doctrine) ==
    Strip(Join(<<FDA_TITLE, Get(doctrine, RESERVED).text>>, <<"\n">>), Whitespace)

(***************************************************************************)
(* The configuration document                                              *)
(***************************************************************************)
SYSTEM == <<"SYS">>
CLASSIFY == <<"CLASSIFY ", "{categories}">>
REPORT == <<"REPORT ", "{categories}", "\n", "{doctrine}">>

\* a well-formed config.yaml: prompts and a vlm group with the given load
\* keys and quantization group ("on": enabled: true, "off": enabled: false,
\* "noflag": a group without the enabled key, "absent": no group)
Config(load, quantization) ==
    [kind |-> "mapping", has_prompts |-> TRUE, has_vlm |-> TRUE,
     load |-> load, quantization |-> quantization]
\* a mapping without the prompts key
ConfigNoPrompts ==
    [kind |-> "mapping", has_prompts |-> FALSE, has_vlm |-> TRUE,
     load |-> {}, quantization |-> "absent"]
\* a mapping without the vlm key
ConfigNoVlm ==
    [kind |-> "mapping", has_prompts |-> TRUE, has_vlm |-> FALSE,
     load |-> {}, quantization |-> "absent"]
\* a document that is not a usable mapping
ConfigBroken(kind) ==
    [kind |-> kind, has_prompts |-> FALSE, has_vlm |-> FALSE,
     load |-> {}, quantization |-> "absent"]

Configs ==
    {Config({"dtype", "device_map"}, "on"), Config({"dtype"}, "off"),
     Config({"dtype", "device_map"}, "noflag"),
     ConfigNoPrompts, ConfigNoVlm,
     ConfigBroken("missing"), ConfigBroken("malformed"), ConfigBroken("list")}

(***************************************************************************)
(* Outcomes of the collaborators                                           *)
(***************************************************************************)
\* a local load succeeds, or raises: OSError because artifacts are absent,
\* OSError for another reason (PermissionError, ...), or another exception
LoadOutcomes == {"ok", "absent", "oserror", "error"}

\* except OSError
IsOSError(outcome) == outcome \in {"absent", "oserror"}

Accelerators == {"0", "cuda:0"}

\* a loaded model: the devices its two submodules sit on, and whether it
\* carries an hf_device_map (it does when it was dispatched with a device map)
Model(has_map, devices) == [loaded |-> TRUE, has_map |-> has_map, devices |-> devices]
NoModel == [loaded |-> FALSE, has_map |-> FALSE, devices |-> << >>]

LoadedModels ==
    {Model(TRUE, <<"0", "cuda:0">>), Model(TRUE, <<"0", "cpu">>),
     Model(TRUE, <<"disk", "0">>), Model(FALSE, <<"cpu", "cpu">>)}

\* not str(dev).isdigit() and not str(dev).startswith("cuda:")
OffGpu(dev) == ~(dev \in {"0", "1"}) /\ ~(dev \in {"cuda:0", "cuda:1"})

\* the list off_gpu_modules is not empty
HasOffGpuModules(model) ==
    model.has_map /\ \E i \in 1..Len(model.devices) : OffGpu(model.devices[i])

\* the labels an injected detector may report ("t" is no doctrine key,
\* the empty label is dropped by format_report_prompt, the last label is
\* the text of the doctrine placeholder)
DetectorLabels == {K_V, K_S, K_SV, <<"t">>, << >>, <<"{doctrine}">>}

\* the texts the model may generate as a report
Reports == {<<"R1">>, <<"R2">>}

\* the spec's scenario for the classifier: "Vehicle,\n'Structure', unknown_label"
Example == <<"V", ",", "\n", "'", "S", "'", ",", " ", "u">>

(***************************************************************************)
(* format_report_prompt                                                    *)
(***************************************************************************)
NonEmpty(x) == x # << >>

\* the locals of format_report_prompt before the substitution
ComposeParts(detections, doctrine) ==
    LET cats == SelectSeq(detections, NonEmpty)
        pda == format_pda_doctrine(cats, doctrine)
        fda == format_fda_doctrine(doctrine)
    IN  [categories |-> cats,
         pda |-> pda,
         fda |-> fda,
         doctrine |->
             Strip(Join(SelectSeq(<<pda, fda>>, NonEmpty), <<"\n", "\n">>), Whitespace),
         categories_text |->
             IF cats # << >> THEN Join(cats, <<",", " ">>) ELSE NONE_TEXT]

NoParts ==
    [categories |-> << >>, pda |-> << >>, fda |-> << >>, doctrine |-> << >>,
     categories_text |-> << >>]

\* the two str.replace calls on the report template
Substitute(template, parts) ==
    Replace(Replace(template, "{categories}", parts.categories_text),
            "{doctrine}", parts.doctrine)

\* the exception format_report_prompt raises on the doctrine document read
\* from storage, "none" when it returns
ComposeError(detections, doc) ==
    CASE doc.kind = "missing" -> "FileNotFoundError"
      [] doc.kind = "malformed" -> "YAMLError"
      [] doc.kind = "list" ->
            IF SelectSeq(detections, NonEmpty) # << >>
            THEN "AttributeError" ELSE "TypeError"
      [] doc.kind = "mapping" /\ ~HasKey(doc, RESERVED) -> "KeyError"
      [] doc.kind = "mapping" /\ Get(doc, RESERVED).type # "str" -> "TypeError"
      [] OTHER -> "none"

(***************************************************************************)
(* State                                                                   *)
(***************************************************************************)
VARIABLES
    configDoc,       \* config.yaml on storage
    doctrineDoc,     \* doctrine.yaml on storage
    detectorArg,     \* the detector argument of BDAPipeline(detector)
    cpc,             \* position of the constructor
    apc,             \* position of the analyze call in progress
    error,           \* the exception the last operation raised, or "none"
    assigned,        \* the attributes of the pipeline object set so far
    system_prompt,   \* self.system_prompt
    classify_prompt, \* self.classify_prompt
    report_prompt,   \* self.report_prompt
    categories,      \* self.categories
    vlm,             \* the VLMRunner: load_kwargs, quantized, model
    detector,        \* self.detector
    loads,           \* outcomes of the _load_local calls so far
    model_kwargs,    \* keyword arguments of the last from_pretrained call
    fetches,         \* number of snapshot_download calls so far
    response,        \* the classify response of the call in progress
    detections,      \* the labels of the detections of the call in progress
    parts,           \* the locals of format_report_prompt of the call
    prompt,          \* the report prompt of the call
    calls,           \* the collaborator calls of the call, in order
    returned,        \* what the last analyze call returned
    prev,            \* the previous successful format_report_prompt call
    loaded,          \* what load_yaml returned to __init__ for each document
    tree,            \* app: the input path on storage and what lies under it
    mpc,             \* app: position of main()
    merror,          \* app: the exception that ended main(), or "none"
    input_paths,     \* app: the list get_input_paths returned to main()
    trace,           \* app: the calls main() has made, in order
    done,            \* app: number of completed iterations of main's loop
    legacy_detector, \* legacy pipeline: attributes set on the ObjectDetector
    legacy_vlm,      \* legacy pipeline: attributes set on the VLM
    listing          \* inputs.get_input_paths: the outcome of its call

pvars ==
    <<configDoc, doctrineDoc, detectorArg, cpc, apc, error, assigned,
      system_prompt, classify_prompt, report_prompt, categories, vlm, detector, loads, model_kwargs,
      fetches, response,
      detections, parts, prompt, calls, returned, prev, loaded>>

avars ==
    <<tree, mpc, merror, input_paths, trace, done, legacy_detector, legacy_vlm,
      listing>>

vars == <<pvars, avars>>

storage == <<configDoc, doctrineDoc, detectorArg>>
object ==
    <<assigned, system_prompt, classify_prompt, report_prompt, categories, vlm,
      detector>>
acquisition == <<loads, model_kwargs, fetches>>
call == <<response, detections, parts, prompt, calls>>

Fields == {"system_prompt", "classify_prompt", "categories", "report_prompt", "vlm", "detector"}

NoVlm == [load_kwargs |-> {}, quantized |-> FALSE, model |-> NoModel]
NoPrev == [set |-> FALSE, detections |-> << >>, prompt |-> << >>]
Call(op, text, system, out) ==
    [op |-> op, prompt |-> text, system_prompt |-> system, out |-> out]

(***************************************************************************)
(* app.py and inputs.py: the input path and the image search               *)
(***************************************************************************)
\* a path under the input folder: name without suffix, Path.suffix, number
\* of directories between the folder and the path, and Path.is_file()
Path(name, suffix, depth, is_file) ==
    [name |-> name, suffix |-> suffix, depth |-> depth, is_file |-> is_file]

NoPath == Path("", "", 0, FALSE)

\* the paths the modelled input folders are made of, in the order of
\* sorted(): a.png, c.txt, crops.png (a directory), d.PNG, sub/b.jpg,
\* sub/e.tiff, sub/f.png
SortedPaths ==
    <<Path("a", ".png", 0, TRUE), Path("c", ".txt", 0, TRUE),
      Path("crops", ".png", 0, FALSE), Path("d", ".PNG", 0, TRUE),
      Path("b", ".jpg", 1, TRUE), Path("e", ".tiff", 1, TRUE),
      Path("f", ".png", 1, TRUE)>>

Paths == {SortedPaths[i] : i \in 1..Len(SortedPaths)}

\* the input path: it does not exist, or it is a folder with the given
\* paths under it, or it is itself the given file
MissingFolder == [kind |-> "missing", entries |-> {}, self |-> NoPath]
Folder(entries) == [kind |-> "folder", entries |-> entries, self |-> NoPath]
SingleFile(path) == [kind |-> "file", entries |-> {}, self |-> path]

Trees ==
    {MissingFolder} \cup {Folder(entries) : entries \in SUBSET Paths}
        \cup {SingleFile(SortedPaths[1]), SingleFile(SortedPaths[2])}

\* app.get_input_paths: valid_ext
APP_VALID_EXT == <<".png", ".jpg", ".jpeg", ".bmp", ".tiff">>

\* inputs.get_input_paths: valid_ext
INPUTS_VALID_EXT == <<".png", ".jpg", ".jpeg", ".bmp">>

\* every order in which a directory scan may yield the paths of a set
Orderings(S) ==
    {f \in [1..Cardinality(S) -> S] :
        \A i, j \in 1..Cardinality(S) : i # j => f[i] # f[j]}

\* input_folder.glob("**/*" + ext): every path under a folder, at any depth
\* and of any kind, whose name ends with ext; nothing when the input path
\* is not a directory
Glob(t, ext) ==
    IF t.kind = "folder" THEN {e \in t.entries : e.suffix = ext} ELSE {}

RECURSIVE GlobAll(_, _)
\* app.get_input_paths, lines 85-88: files.extend(glob(pattern)) for each
\* pattern in turn; the set of lists the loop may build
GlobAll(t, exts) ==
    IF exts = << >> THEN {<< >>}
    ELSE {first \o rest : first \in Orderings(Glob(t, Head(exts))),
                          rest \in GlobAll(t, Tail(exts))}

\* inputs.get_input_paths: the list it returns, or an exit
InputsGetInputPaths(t) ==
    LET Valid(e) ==
            /\ e \in t.entries
            /\ e.is_file
            /\ InList(LowerAtom(e.suffix), INPUTS_VALID_EXT)
        files ==
            IF t.kind = "file"
            THEN IF InList(LowerAtom(t.self.suffix), INPUTS_VALID_EXT)
                 THEN <<t.self>> ELSE << >>
            ELSE SelectSeq(SortedPaths, Valid)
    IN  [called |-> TRUE, exit |-> files = << >>, files |-> files]

NotListed == [called |-> FALSE, exit |-> FALSE, files |-> << >>]

\* a call recorded in the trace of main()
Step(op, path) == [op |-> op, path |-> path]

\* main() has not started
MainNotStarted ==
    /\ mpc = "start"
    /\ merror = "none"
    /\ input_paths = << >>
    /\ trace = << >>
    /\ done = 0
    /\ legacy_detector = {}
    /\ legacy_vlm = {}
    /\ listing = NotListed

\* main() is not run
NoMain ==
    /\ tree = MissingFolder
    /\ MainNotStarted

\* neither document has been read
NotLoaded == [config |-> "unread", doctrine |-> "unread"]

\* no BDAPipeline has been constructed
Unbuilt ==
    /\ cpc = "init"
    /\ apc = "idle"
    /\ error = "none"
    /\ assigned = {}
    /\ system_prompt = << >>
    /\ classify_prompt = << >>
    /\ report_prompt = << >>
    /\ categories = << >>
    /\ vlm = NoVlm
    /\ detector = None
    /\ loads = << >>
    /\ model_kwargs = {}
    /\ fetches = 0
    /\ response = << >>
    /\ detections = << >>
    /\ parts = NoParts
    /\ prompt = << >>
    /\ calls = << >>
    /\ returned = << >>
    /\ prev = NoPrev
    /\ loaded = NotLoaded

\* the state before BDAPipeline(detector) runs
Init ==
    /\ configDoc \in Configs
    /\ doctrineDoc \in Doctrines
    /\ detectorArg \in {None, "Detector"}
    /\ Unbuilt
    /\ NoMain

(***************************************************************************)
(* BDAPipeline.__init__ and VLMRunner.__init__                             *)
(***************************************************************************)
NotReserved(k) == k # RESERVED

\* utilities.load_yaml: open() and yaml.safe_load(); the parsed document is
\* returned as it is, whatever its top-level type
load_yaml(doc) ==
    CASE doc.kind = "missing" -> [raises |-> "FileNotFoundError", data |-> "unread"]
      [] doc.kind = "malformed" -> [raises |-> "YAMLError", data |-> "unread"]
      [] OTHER -> [raises |-> "none", data |-> doc.kind]

\* lines 199-200: config = load_yaml(CONFIG_PATH), then
\* doctrine = load_yaml(DOCTRINE_PATH) when the first call returned
LoadBoth(cfg, doc) ==
    [config |-> load_yaml(cfg).data,
     doctrine |->
         IF load_yaml(cfg).raises = "none" THEN load_yaml(doc).data ELSE "unread"]

\* the exception the first part of BDAPipeline.__init__ raises, with the
\* attributes already set when it is raised
ConfigLoadError(cfg, doc) ==
    CASE cfg.kind = "missing" -> [error |-> "FileNotFoundError", set |-> {}]
      [] cfg.kind = "malformed" -> [error |-> "YAMLError", set |-> {}]
      [] doc.kind = "missing" -> [error |-> "FileNotFoundError", set |-> {}]
      [] doc.kind = "malformed" -> [error |-> "YAMLError", set |-> {}]
      [] cfg.kind = "list" -> [error |-> "TypeError", set |-> {}]
      [] ~cfg.has_prompts -> [error |-> "KeyError", set |-> {}]
      [] doc.kind = "list" ->
            [error |-> "AttributeError", set |-> {"system_prompt", "classify_prompt"}]
      [] OTHER -> [error |-> "none", set |-> {}]

\* the constructor raises: no instance is returned
Raise(e) ==
    /\ cpc' = "failed"
    /\ error' = e

\* lines 199-212: both documents are loaded, the prompts and the category
\* vocabulary are set
LoadConfig ==
    /\ cpc = "init"
    /\ LET e == ConfigLoadError(configDoc, doctrineDoc)
           keys == SelectSeq(Keys(doctrineDoc), NotReserved)
       IN  IF e.error # "none"
           THEN /\ Raise(e.error)
                /\ assigned' = e.set
                /\ system_prompt' = IF "system_prompt" \in e.set THEN SYSTEM ELSE << >>
                /\ classify_prompt' =
                       IF "classify_prompt" \in e.set THEN CLASSIFY ELSE << >>
                /\ UNCHANGED <<report_prompt, categories>>
           ELSE /\ cpc' = "config_loaded"
                /\ error' = "none"
                /\ assigned' =
                       {"system_prompt", "classify_prompt", "categories", "report_prompt"}
                /\ system_prompt' = SYSTEM
                /\ categories' = keys
                /\ classify_prompt' =
                       Replace(CLASSIFY, "{categories}", Join(keys, <<",", " ">>))
                /\ report_prompt' = REPORT
    /\ loaded' = LoadBoth(configDoc, doctrineDoc)
    /\ UNCHANGED <<avars, storage, apc, vlm, detector, acquisition, call, returned, prev>>

\* _build_quantization_config() is not None
Quantized(quantization) == quantization # "off"

\* lines 215-219 and 72-95: the vlm group is read, the VLMRunner takes its
\* parameter blocks and drops dtype under quantization
BeginAcquire ==
    /\ cpc = "config_loaded"
    /\ IF ~configDoc.has_vlm
       THEN /\ Raise("AttributeError")
            /\ UNCHANGED vlm
       ELSE /\ cpc' = "load1"
            /\ error' = "none"
            /\ vlm' = [load_kwargs |->
                           IF Quantized(configDoc.quantization)
                           THEN configDoc.load \ {"dtype"}
                           ELSE configDoc.load,
                       quantized |-> Quantized(configDoc.quantization),
                       model |-> NoModel]
    /\ UNCHANGED <<avars, storage, loaded, apc, assigned, system_prompt, classify_prompt,
                   report_prompt, categories, detector, acquisition, call,
                   returned, prev>>

\* lines 104-106: model_kwargs = dict(self.load_kwargs), with the
\* quantization configuration added when there is one
ModelKwargs(runner) ==
    runner.load_kwargs \cup
        (IF runner.quantized THEN {"quantization_config"} ELSE {})

\* the exception a failed local load raises
LoadException(outcome) == IF IsOSError(outcome) THEN "OSError" ELSE "ValueError"

\* a buggy loader: a failed load is reported and construction goes on
LoadLocalSwallow ==
    /\ cpc \in {"load1", "load2"}
    /\ \E outcome \in LoadOutcomes, m \in LoadedModels :
          /\ loads' = Append(loads, outcome)
          /\ model_kwargs' = ModelKwargs(vlm)
          /\ vlm' = IF outcome = "ok" THEN [vlm EXCEPT !.model = m] ELSE vlm
          /\ cpc' = "check"
          /\ error' = "none"
    /\ UNCHANGED <<avars, storage, loaded, apc, assigned, system_prompt, classify_prompt,
                   report_prompt, categories, detector, fetches, call, returned,
                   prev>>

\* lines 97-120: _load_local(), called first in the try block and a second
\* time after the download
LoadLocal ==
    /\ cpc \in {"load1", "load2"}
    /\ \E outcome \in LoadOutcomes, m \in LoadedModels :
          /\ loads' = Append(loads, outcome)
          /\ model_kwargs' = ModelKwargs(vlm)
          /\ IF outcome = "ok"
             THEN /\ vlm' = [vlm EXCEPT !.model = m]
                  /\ cpc' = "check"
                  /\ error' = "none"
             ELSE IF cpc = "load1" /\ IsOSError(outcome)
             THEN /\ cpc' = "fetch"
                  /\ error' = "none"
                  /\ UNCHANGED vlm
             ELSE /\ Raise(LoadException(outcome))
                  /\ UNCHANGED vlm
    /\ UNCHANGED <<avars, storage, loaded, apc, assigned, system_prompt, classify_prompt,
                   report_prompt, categories, detector, fetches, call, returned,
                   prev>>

\* line 119: snapshot_download in the except OSError block
Fetch ==
    /\ cpc = "fetch"
    /\ fetches' = fetches + 1
    /\ \E ok \in BOOLEAN :
          IF ok
          THEN cpc' = "load2" /\ error' = "none"
          ELSE Raise("HfHubHTTPError")
    /\ UNCHANGED <<avars, storage, loaded, apc, object, loads, model_kwargs, call, returned,
                   prev>>

\* lines 122-136 and 220-227: the device map check; then the runner and the
\* detector are stored and the constructor returns
CheckDevices ==
    /\ cpc = "check"
    /\ IF HasOffGpuModules(vlm.model)
       THEN /\ Raise("RuntimeError")
            /\ UNCHANGED <<assigned, detector>>
       ELSE /\ cpc' = "done"
            /\ error' = "none"
            /\ assigned' = assigned \cup {"vlm", "detector"}
            /\ detector' = detectorArg
    /\ UNCHANGED <<avars, storage, loaded, apc, system_prompt, classify_prompt, report_prompt,
                   categories, vlm, acquisition, call, returned, prev>>

(***************************************************************************)
(* BDAPipeline.analyze                                                     *)
(***************************************************************************)
\* the analyze call raises: the exception reaches the caller
RaiseInCall(e) ==
    /\ apc' = "idle"
    /\ error' = e
    /\ returned' = << >>

\* lines 295-296: Image.open and convert; analyze is called on a pipeline
\* the constructor has returned
Decode ==
    /\ cpc = "done"
    /\ apc = "idle"
    /\ calls' = <<Call("decode", << >>, << >>, << >>)>>
    /\ response' = << >>
    /\ detections' = << >>
    /\ parts' = NoParts
    /\ prompt' = << >>
    /\ \E ok \in BOOLEAN :
          IF ok
          THEN apc' = "decoded" /\ error' = "none" /\ UNCHANGED returned
          ELSE RaiseInCall("DecodeError")
    /\ UNCHANGED <<avars, storage, loaded, cpc, object, acquisition, prev>>

\* lines 229-259: detect_objects, with the model responses and the detector
\* outputs drawn from the given sets
DetectFrom(responses, outputs) ==
    /\ apc = "decoded"
    /\ IF detector # None
       THEN \E labels \in outputs :
               /\ detections' = labels
               /\ calls' = Append(calls, Call("detect", << >>, << >>, << >>))
               /\ apc' = "detected"
               /\ UNCHANGED <<response, error, returned>>
       ELSE \/ \E r \in responses :
                  /\ response' = r
                  /\ detections' = NormalizeLabels(r, categories)
                  /\ calls' =
                         Append(calls, Call("generate", classify_prompt, system_prompt, r))
                  /\ apc' = "detected"
                  /\ UNCHANGED <<error, returned>>
            \/ /\ calls' =
                      Append(calls, Call("generate", classify_prompt, system_prompt, << >>))
               /\ RaiseInCall("InferenceError")
               /\ UNCHANGED <<response, detections>>
    /\ UNCHANGED <<avars, storage, loaded, cpc, object, acquisition, parts, prompt, prev>>

\* lines 261-284: format_report_prompt; both renderers read doctrine.yaml
\* from storage
Compose ==
    /\ apc = "detected"
    /\ LET e == ComposeError(detections, doctrineDoc)
       IN  IF e # "none"
           THEN /\ RaiseInCall(e)
                /\ UNCHANGED <<parts, prompt>>
           ELSE /\ parts' = ComposeParts(detections, doctrineDoc)
                /\ prompt' = Substitute(report_prompt, parts')
                /\ apc' = "composed"
                /\ UNCHANGED <<error, returned>>
    /\ response' = << >>
    /\ UNCHANGED <<avars, storage, loaded, cpc, object, acquisition, detections, calls, prev>>

\* a buggy last stage: the report is generated from the classify prompt
GenerateFromClassifyPrompt ==
    /\ apc = "composed"
    /\ prev' = [set |-> TRUE, detections |-> detections, prompt |-> prompt]
    /\ \/ \E text \in Reports :
             /\ calls' =
                    Append(calls, Call("generate", classify_prompt, system_prompt, text))
             /\ returned' = text
             /\ apc' = "idle"
             /\ error' = "none"
       \/ /\ calls' =
                 Append(calls, Call("generate", classify_prompt, system_prompt, << >>))
          /\ RaiseInCall("InferenceError")
    /\ UNCHANGED <<avars, storage, loaded, cpc, object, acquisition, response, detections, parts,
                   prompt>>

\* a buggy last stage: a failed generation is attempted a second time
GenerateRetry ==
    /\ apc = "composed"
    /\ prev' = [set |-> TRUE, detections |-> detections, prompt |-> prompt]
    /\ \/ \E text \in Reports :
             /\ calls' = Append(calls, Call("generate", prompt, system_prompt, text))
             /\ returned' = text
             /\ apc' = "idle"
             /\ error' = "none"
       \/ /\ calls' =
                 Append(Append(calls, Call("generate", prompt, system_prompt, << >>)),
                        Call("generate", prompt, system_prompt, << >>))
          /\ RaiseInCall("InferenceError")
    /\ UNCHANGED <<avars, storage, loaded, cpc, object, acquisition, response, detections, parts,
                   prompt>>

\* lines 299-303: the report is generated and returned
Generate ==
    /\ apc = "composed"
    /\ prev' = [set |-> TRUE, detections |-> detections, prompt |-> prompt]
    /\ \/ \E text \in Reports :
             /\ calls' = Append(calls, Call("generate", prompt, system_prompt, text))
             /\ returned' = text
             /\ apc' = "idle"
             /\ error' = "none"
       \/ /\ calls' = Append(calls, Call("generate", prompt, system_prompt, << >>))
          /\ RaiseInCall("InferenceError")
    /\ UNCHANGED <<avars, storage, loaded, cpc, object, acquisition, response, detections, parts,
                   prompt>>

\* doctrine.yaml is replaced on storage between two analyze calls
EditDoctrine ==
    /\ cpc = "done"
    /\ apc = "idle"
    /\ \E d \in Doctrines \ {doctrineDoc} : doctrineDoc' = d
    /\ UNCHANGED <<avars, configDoc, detectorArg, loaded, cpc, apc, error, object, acquisition,
                   call, returned, prev>>

(***************************************************************************)
(* The pipeline: construction, then any number of analyze calls            *)
(***************************************************************************)
\* the model responses of the pipeline runs
ScenarioResponses ==
    {<< >>, <<" ", "\n">>, Example, <<"s", ",", "v", ",", "s">>, <<"u">>}

\* the detector outputs of the pipeline runs
ScenarioOutputs == {<< >>, <<K_S, K_V>>, <<K_V, <<"t">>>>, <<<< >>>>}

Detect == DetectFrom(ScenarioResponses, ScenarioOutputs)

Next ==
    \/ LoadConfig
    \/ BeginAcquire
    \/ LoadLocal
    \/ Fetch
    \/ CheckDevices
    \/ Decode
    \/ Detect
    \/ Compose
    \/ Generate
    \/ EditDoctrine

Spec == Init /\ [][Next]_vars

(***************************************************************************)
(* The state of a pipeline whose constructor has returned and whose        *)
(* analyze call has decoded its image: built from doctrine document doc,   *)
(* with detector det, and with document now on storage.                    *)
(***************************************************************************)
InCall(doc, det, now) ==
    /\ configDoc = Config({"dtype", "device_map"}, "on")
    /\ doctrineDoc = now
    /\ detectorArg = det
    /\ cpc = "done"
    /\ apc = "decoded"
    /\ error = "none"
    /\ assigned = Fields
    /\ system_prompt = SYSTEM
    /\ categories = SelectSeq(Keys(doc), NotReserved)
    /\ classify_prompt =
           Replace(CLASSIFY, "{categories}",
                   Join(SelectSeq(Keys(doc), NotReserved), <<",", " ">>))
    /\ report_prompt = REPORT
    /\ vlm = [load_kwargs |-> {"device_map"}, quantized |-> TRUE,
              model |-> Model(TRUE, <<"0", "cuda:0">>)]
    /\ detector = det
    /\ loads = <<"ok">>
    /\ model_kwargs = {"device_map", "quantization_config"}
    /\ fetches = 0
    /\ response = << >>
    /\ detections = << >>
    /\ parts = NoParts
    /\ prompt = << >>
    /\ calls = <<Call("decode", << >>, << >>, << >>)>>
    /\ returned = << >>
    /\ prev = NoPrev
    /\ loaded = [config |-> "mapping", doctrine |-> "mapping"]
    /\ NoMain

\* the doctrine documents a pipeline can be built from
BuildDoctrines == {DoctrineVS, DoctrineSV, DoctrineFlat, DoctrineNoFdd}

(***************************************************************************)
(* The classifier on every short model response                            *)
(***************************************************************************)
Alphabet == {"v", "V", "s", "u", ",", "\n", " ", "'", "\""}

\* every text over the alphabet of at most n atoms
Strings(n) == UNION {[1..k -> Alphabet] : k \in 0..n}

InitNormalize == \E doc \in BuildDoctrines : InCall(doc, None, doc)

\* candidates wrapped in two layers of quotes
QuotedResponses ==
    {<<"'", "'", "v", "'", "'">>, <<"\"", "'", "s", "'", "\"">>,
     <<"'", "\"", "v", "\"", "'">>, <<"\"", "\"", "s", "\"", "\"">>}

Classify ==
    DetectFrom(Strings(MaxLen) \cup ScenarioResponses \cup QuotedResponses,
               ScenarioOutputs)

SpecNormalize == InitNormalize /\ [][Classify]_vars

(***************************************************************************)
(* The composer on every short list of detector labels                     *)
(***************************************************************************)
\* every list of at most n detector labels
LabelLists(n) == UNION {[1..k -> DetectorLabels] : k \in 0..n}

InitRender == \E now \in Doctrines : InCall(DoctrineVS, "Detector", now)

DetectInjected == DetectFrom(ScenarioResponses, LabelLists(MaxDet))

NextRender == DetectInjected \/ Compose

SpecRender == InitRender /\ [][NextRender]_vars

(***************************************************************************)
(* app.main with the legacy pipeline of bda_svc/model.py                   *)
(***************************************************************************)
\* main() ends with exception e
RaiseInMain(e) ==
    /\ mpc' = "raised"
    /\ merror' = e

\* app.get_input_folder, lines 35-66: exits when the input path is missing
GetInputFolder ==
    /\ mpc = "start"
    /\ trace' = Append(trace, Step("get_input_folder", NoPath))
    /\ IF tree.kind = "missing"
       THEN mpc' = "exited" /\ merror' = "SystemExit"
       ELSE mpc' = "folder" /\ UNCHANGED merror
    /\ UNCHANGED <<pvars, tree, input_paths, done, legacy_detector, legacy_vlm,
                   listing>>

\* app.get_input_paths, lines 69-95: the glob patterns in turn, and an exit
\* when nothing was found
GetInputPaths ==
    /\ mpc = "folder"
    /\ trace' = Append(trace, Step("get_input_paths", NoPath))
    /\ \E files \in GlobAll(tree, APP_VALID_EXT) :
          IF files = << >>
          THEN /\ mpc' = "exited"
               /\ merror' = "SystemExit"
               /\ UNCHANGED input_paths
          ELSE /\ input_paths' = files
               /\ mpc' = "paths"
               /\ UNCHANGED merror
    /\ UNCHANGED <<pvars, tree, done, legacy_detector, legacy_vlm, listing>>

\* legacy BDAPipeline.__init__, lines 27-30: config.yaml is opened and
\* parsed
LegacyLoadConfig ==
    /\ mpc = "paths"
    /\ trace' = Append(trace, Step("BDAPipeline", NoPath))
    /\ \E ok \in BOOLEAN :
          IF ok
          THEN mpc' = "config" /\ UNCHANGED merror
          ELSE RaiseInMain("FileNotFoundError")
    /\ UNCHANGED <<pvars, tree, input_paths, done, legacy_detector, legacy_vlm,
                   listing>>

\* the attributes ObjectDetector.__init__ sets before it loads anything
DetectorBase == {"device", "model_id", "text_labels", "detection_threshold"}

\* what the try block of ObjectDetector.__init__ may do: both loads
\* succeed, the processor load raises, or the pipeline() call raises
DetectorLoads == {"ok", "no_processor", "no_pipeline"}

\* ObjectDetector.__init__, lines 61-96: an exception of the try block is
\* printed and the constructor returns
BuildDetector ==
    /\ mpc = "config"
    /\ \E load \in DetectorLoads :
          legacy_detector' =
              DetectorBase \cup
                  (CASE load = "ok" -> {"processor", "model"}
                     [] load = "no_pipeline" -> {"processor"}
                     [] OTHER -> {})
    /\ mpc' = "detector"
    /\ UNCHANGED <<pvars, tree, merror, input_paths, trace, done, legacy_vlm,
                   listing>>

\* what ollama may answer in VLM.__init__: the model is listed, it is not
\* listed and the pull succeeds, the pull fails, or ollama cannot be run
OllamaAnswers == {"listed", "pulled", "pull_failed", "no_ollama"}

\* VLM.__init__, lines 130-148: a failed pull makes the constructor return
\* before it sets model_id and system_prompt
BuildVLM ==
    /\ mpc = "detector"
    /\ \E answer \in OllamaAnswers :
          CASE answer = "no_ollama" ->
                  /\ RaiseInMain("FileNotFoundError")
                  /\ UNCHANGED legacy_vlm
            [] answer = "pull_failed" ->
                  /\ mpc' = "built"
                  /\ UNCHANGED <<merror, legacy_vlm>>
            [] OTHER ->
                  /\ mpc' = "built"
                  /\ legacy_vlm' = {"model_id", "system_prompt"}
                  /\ UNCHANGED merror
    /\ UNCHANGED <<pvars, tree, input_paths, trace, done, legacy_detector, listing>>

\* what the collaborators of a call may do: all return, the image cannot
\* be decoded, or the chat request fails
CallOutcomes == {"none", "UnidentifiedImageError", "ResponseError"}

\* the exception legacy BDAPipeline.analyze raises on a path, "none" when
\* it returns: Image.open first, then self.detector.detect reads
\* self.model, then self.vlm.analyze_image reads self.system_prompt and
\* self.model_id and sends the chat request
AnalyzeError(path, outcome) ==
    CASE ~path.is_file -> "IsADirectoryError"
      [] outcome = "UnidentifiedImageError" -> outcome
      [] "model" \notin legacy_detector -> "AttributeError"
      [] ~({"model_id", "system_prompt"} \subseteq legacy_vlm) -> "AttributeError"
      [] OTHER -> outcome

\* a different loop: the paths are taken from the last to the first
AnalyzeNextReversed ==
    /\ mpc = "built"
    /\ LET path == input_paths[Len(input_paths) - done]
       IN  /\ trace' = Append(trace, Step("analyze", path))
           /\ \E outcome \in CallOutcomes :
                 LET e == AnalyzeError(path, outcome)
                 IN  IF e # "none"
                     THEN RaiseInMain(e) /\ UNCHANGED done
                     ELSE /\ done' = done + 1
                          /\ mpc' = IF done' = Len(input_paths)
                                    THEN "finished" ELSE "built"
                          /\ UNCHANGED merror
    /\ UNCHANGED <<pvars, tree, input_paths, legacy_detector, legacy_vlm, listing>>

\* main, lines 113-120, with legacy BDAPipeline.analyze, lines 41-55: one
\* iteration of the loop over input_paths
AnalyzeNext ==
    /\ mpc = "built"
    /\ LET path == input_paths[done + 1]
       IN  /\ trace' = Append(trace, Step("analyze", path))
           /\ \E outcome \in CallOutcomes :
                 LET e == AnalyzeError(path, outcome)
                 IN  IF e # "none"
                     THEN RaiseInMain(e) /\ UNCHANGED done
                     ELSE /\ done' = done + 1
                          /\ mpc' = IF done' = Len(input_paths)
                                    THEN "finished" ELSE "built"
                          /\ UNCHANGED merror
    /\ UNCHANGED <<pvars, tree, input_paths, legacy_detector, legacy_vlm, listing>>

\* inputs.get_input_paths, lines 46-86, called on an existing input path
ListInputs ==
    /\ ~listing.called
    /\ tree.kind # "missing"
    /\ listing' = InputsGetInputPaths(tree)
    /\ UNCHANGED <<pvars, tree, mpc, merror, input_paths, trace, done,
                   legacy_detector, legacy_vlm>>

\* the state before main() runs, with any of the modelled input paths
InitApp ==
    /\ configDoc = ConfigBroken("missing")
    /\ doctrineDoc = Missing
    /\ detectorArg = None
    /\ Unbuilt
    /\ tree \in Trees
    /\ MainNotStarted

NextApp ==
    \/ GetInputFolder
    \/ GetInputPaths
    \/ LegacyLoadConfig
    \/ BuildDetector
    \/ BuildVLM
    \/ AnalyzeNext
    \/ ListInputs

SpecApp == InitApp /\ [][NextApp]_vars

(***************************************************************************)
(* Properties                                                              *)
(***************************************************************************)
\* the lifecycle state of the orchestrator
State ==
    CASE cpc = "init" -> "Unconfigured"
      [] cpc = "config_loaded" -> "ConfigLoaded"
      [] cpc \in {"load1", "fetch", "load2", "check"} -> "ModelAcquiring"
      [] cpc = "done" -> "Ready"
      [] OTHER -> "Failed"

\* C1: the snapshot fetch happens at most once and only after the first
\* local load failed because artifacts are absent; there are at most two
\* local loads; when the first load fails for another reason, or the second
\* load fails, construction has failed and nothing more was attempted.
C1_FetchOnlyWhenAbsent ==
    /\ fetches <= 1
    /\ Len(loads) <= 2
    /\ fetches >= 1 => (loads # << >> /\ loads[1] = "absent")
    /\ (loads # << >> /\ loads[1] \notin {"ok", "absent"}) =>
           (cpc = "failed" /\ Len(loads) = 1 /\ fetches = 0)
    /\ (Len(loads) = 2 /\ loads[2] # "ok") => cpc = "failed"

\* C2: whenever construction has completed, every submodule of the loaded
\* model is on an accelerator; a loaded model with a submodule elsewhere
\* never gets past the device check.
C2_ReadyImpliesResident ==
    cpc = "done" =>
        /\ vlm.model.loaded
        /\ \A i \in 1..Len(vlm.model.devices) : vlm.model.devices[i] \in Accelerators

LifecycleEdges ==
    {<<"Unconfigured", "ConfigLoaded">>, <<"ConfigLoaded", "ModelAcquiring">>,
     <<"ModelAcquiring", "Ready">>, <<"Unconfigured", "Failed">>,
     <<"ConfigLoaded", "Failed">>, <<"ModelAcquiring", "Failed">>}

\* analyze runs only on a Ready pipeline, a Ready pipeline has every
\* attribute set and a loaded model, a failed construction has run no analyze
LifecycleInv ==
    /\ (apc # "idle" \/ calls # << >>) => State = "Ready"
    /\ State = "Ready" => (assigned = Fields /\ vlm.model.loaded)
    /\ State = "Failed" => (apc = "idle" /\ calls = << >> /\ "vlm" \notin assigned)

\* C3: the lifecycle moves only Unconfigured -> ConfigLoaded ->
\* ModelAcquiring -> Ready or into Failed; nothing changes once Failed;
\* analyze executes only in Ready; a failed construction never yields a
\* pipeline on which analyze runs, whatever attributes it had set.
C3_Lifecycle ==
    /\ []LifecycleInv
    /\ [][/\ State' # State => <<State, State'>> \in LifecycleEdges
          /\ State = "Failed" => UNCHANGED vars]_vars

\* a construction that failed after it had set attributes and loaded a model
C3_Witness ==
    /\ State = "Failed"
    /\ vlm.model.loaded
    /\ assigned # {}

\* the candidates of the response in progress, cleaned
CleanCandidates ==
    LET c == Candidates(response) IN [i \in 1..Len(c) |-> CleanLabel(c[i])]

\* the first candidate that is label l
FirstAt(l) ==
    CHOOSE k \in 1..Len(CleanCandidates) :
        /\ CleanCandidates[k] = l
        /\ \A j \in 1..(k - 1) : CleanCandidates[j] # l

\* C4: the labels kept from a model response are all categories, none
\* occurs twice, each occurs as a candidate of the response, they stand in
\* the order of their first occurrence, and no candidate that is a category
\* is missing; the scenario response gives [vehicle, structure].
C4_NormalizeOrdered ==
    (apc = "detected" /\ detector = None) =>
        /\ \A i \in 1..Len(detections) : InList(detections[i], categories)
        /\ \A i, j \in 1..Len(detections) : i # j => detections[i] # detections[j]
        /\ \A i \in 1..Len(detections) : InList(detections[i], CleanCandidates)
        /\ \A i, j \in 1..Len(detections) :
               i < j => FirstAt(detections[i]) < FirstAt(detections[j])
        /\ \A k \in 1..Len(CleanCandidates) :
               InList(CleanCandidates[k], categories) =>
                   InList(CleanCandidates[k], detections)
        /\ (response = Example /\ categories = <<K_V, K_S>>) =>
               detections = <<K_V, K_S>>

\* a response with a repeated label and a label that is no category
C4_Witness ==
    /\ apc = "detected"
    /\ detector = None
    /\ Len(detections) = 2
    /\ Len(CleanCandidates) > 2
    /\ \E i, j \in 1..Len(CleanCandidates) :
           i # j /\ CleanCandidates[i] = CleanCandidates[j] /\ CleanCandidates[i] # << >>

Blank(text) == \A i \in 1..Len(text) : text[i] \in Whitespace

\* C5: normalization never raises: every response the model returns leads
\* to a detection list, with at most one label per candidate; a response
\* that is empty or only whitespace, or that holds no category, gives the
\* empty list; the only exception of the stage is the one generate raised.
C5_NormalizeTotal ==
    /\ (apc = "detected" /\ detector = None) =>
           /\ error = "none"
           /\ Len(detections) <= Len(CleanCandidates)
           /\ Blank(response) => detections = << >>
           /\ (\A k \in 1..Len(CleanCandidates) :
                   ~InList(CleanCandidates[k], categories)) => detections = << >>
    /\ (apc = "idle" /\ detector = None /\ error # "none") =>
           (response = << >> /\ calls[Len(calls)].out = << >>)

\* a whitespace-only response was normalized
C5_Witness ==
    /\ apc = "detected"
    /\ detector = None
    /\ response # << >>
    /\ Blank(response)
    /\ detections = << >>

\* the positions of the block headers in a text
HeadersOf(text) == {p \in 1..Len(text) : text[p] = TARGET}

\* the doctrine document on storage holds a structured entry for key k
Structured(k) == Get(doctrineDoc, k).type = "dict"

\* C6: the physical-damage text holds one TARGET CATEGORY block per input
\* category with a structured doctrine entry, in input order, each titled
\* with its category, none for the other categories; it is the sentinel
\* exactly when no category has a structured entry.
C6_OneBlockPerCategory ==
    apc = "composed" =>
        LET blocks == SelectSeq(parts.categories, Structured)
            heads == HeadersOf(parts.pda)
        IN  /\ Cardinality(heads) = Len(blocks)
            /\ \A p \in heads :
                   LET title == Title(blocks[Cardinality({q \in heads : q <= p})])
                       end == p + Len(title)
                   IN  /\ SubSeq(parts.pda, p + 1, end) = title
                       /\ end = Len(parts.pda) \/ parts.pda[end + 1] = "\n"
            /\ (parts.pda = SENTINEL) <=> (blocks = << >>)

\* of two input categories one was skipped and one got its block
C6_Witness ==
    /\ apc = "composed"
    /\ Cardinality(HeadersOf(parts.pda)) = 1
    /\ Len(parts.categories) = 2
    /\ Structured(parts.categories[2])
    /\ ~Structured(parts.categories[1])

\* C7 as stated: with an empty detection list the categories text is NONE
\* and the doctrine text is the functional-damage block alone.
C7_OnlyFunctionalBlock ==
    (apc = "composed" /\ detections = << >>) =>
        /\ parts.categories_text = NONE_TEXT
        /\ parts.doctrine = parts.fda

\* C7 amended: with an empty detection list the categories text is NONE and
\* the doctrine text is the sentinel of the physical-damage renderer, a
\* blank line, and the functional-damage block; both are substituted into
\* the report template.
C7_SentinelThenFunctional ==
    (apc = "composed" /\ detections = << >>) =>
        /\ parts.categories_text = <<"NONE">>
        /\ parts.fda =
               Strip(FDA_TITLE \o <<"\n">> \o Get(doctrineDoc, RESERVED).text, {"\n"})
        /\ parts.doctrine = SENTINEL \o <<"\n", "\n">> \o parts.fda
        /\ prompt = <<"REPORT ", "NONE", "\n">> \o parts.doctrine

\* a report prompt composed from an empty detection list
C7_Witness ==
    /\ apc = "composed"
    /\ detections = << >>
    /\ detector # None

\* C8: two format_report_prompt calls on one pipeline with the same
\* detections give the same prompt, whatever happened between them.
C8_SameInputSameOutput ==
    (apc = "composed" /\ prev.set /\ prev.detections = detections) =>
        prompt = prev.prompt

\* the collaborator calls of a call, by name
Ops == [i \in 1..Len(calls) |-> calls[i].op]

\* C9: a successful analyze call has decoded, then detected, then composed,
\* then generated: with a detector, one detect call and one generate call
\* with the report prompt; without, one generate call with the classify
\* prompt and one with the report prompt composed from the normalized
\* labels; it returns the text of the last generate call.  A call in
\* progress has made the calls of its stages so far and no other.
C9_StageOrder ==
    /\ apc = "decoded" => Ops = <<"decode">>
    /\ apc \in {"detected", "composed"} =>
           Ops = <<"decode", IF detector # None THEN "detect" ELSE "generate">>
    /\ (apc = "idle" /\ calls # << >> /\ error = "none") =>
           /\ Ops = <<"decode", IF detector # None THEN "detect" ELSE "generate",
                      "generate">>
           /\ detector = None =>
                  /\ calls[2].prompt = classify_prompt
                  /\ calls[2].system_prompt = system_prompt
                  /\ detections = NormalizeLabels(calls[2].out, categories)
           /\ parts.categories = SelectSeq(detections, NonEmpty)
           /\ prompt = Substitute(report_prompt, parts)
           /\ calls[3].prompt = prompt
           /\ calls[3].system_prompt = system_prompt
           /\ returned = calls[3].out
           /\ returned \in Reports

\* a call without detector that classified two labels has returned
C9_Witness ==
    /\ apc = "idle"
    /\ error = "none"
    /\ detector = None
    /\ Len(calls) = 3
    /\ Len(detections) = 2
    /\ returned = <<"R2">>

\* C10: every label that reaches the report prompt is in the vocabulary.
C10_LabelsInVocabulary ==
    apc = "composed" =>
        \A i \in 1..Len(parts.categories) : InList(parts.categories[i], categories)

\* C11: load_yaml fails when a document is missing, malformed or not a
\* mapping at its top level, so whatever it returned to the constructor is a
\* mapping; a construction that failed on a document has started no model
\* acquisition, and a construction past the documents holds two mappings.
C11_LoadReturnsMapping ==
    /\ loaded.config \in {"unread", "mapping"}
    /\ loaded.doctrine \in {"unread", "mapping"}
    /\ (cpc = "failed" /\ loaded # [config |-> "mapping", doctrine |-> "mapping"]) =>
           (loads = << >> /\ fetches = 0)
    /\ cpc \notin {"init", "failed"} =>
           loaded = [config |-> "mapping", doctrine |-> "mapping"]

\* the step ends an analyze call with a decode error or an inference error
FailsCall ==
    /\ cpc = "done"
    /\ apc' = "idle"
    /\ error' \in {"DecodeError", "InferenceError"}
    /\ calls' # calls

\* C12: an analyze call that fails with a decode error or with an inference
\* error hands that error to the caller and returns nothing; the failing
\* collaborator call is the last call made (there is no retry and no further
\* generate call); the pipeline stays Ready and its prompts, vocabulary,
\* detector and model handle are the ones it had before, so the next analyze
\* call starts from the same pipeline.
C12_FailedCallLeavesReady ==
    [][FailsCall =>
          /\ cpc' = "done"
          /\ UNCHANGED <<object, acquisition, storage, loaded>>
          /\ returned' = << >>
          /\ error' = "DecodeError" => calls' = <<Call("decode", << >>, << >>, << >>)>>
          /\ error' = "InferenceError" =>
                /\ Len(calls') = Len(calls) + 1
                /\ SubSeq(calls', 1, Len(calls)) = calls
                /\ calls'[Len(calls')].op = "generate"
                /\ calls'[Len(calls')].out = << >>
                /\ Len(calls') <= 3]_vars

\* C12 witness: the report generation of a call has failed, after a
\* successful classification, on a pipeline that is still complete
C12_Witness ==
    /\ cpc = "done"
    /\ apc = "idle"
    /\ error = "InferenceError"
    /\ Len(calls) = 3
    /\ calls[2].op = "generate"
    /\ assigned = Fields
    /\ vlm.model.loaded

\* C13: once the loader has been called, the dtype entry of the configured
\* load parameters was dropped exactly when the quantization group has its
\* enabled flag set; without the flag set the loader received the configured
\* load parameters as they are; the loader never received both a
\* quantization configuration and a dtype.
C13_DtypeDroppedIffEnabled ==
    loads # << >> =>
        /\ configDoc.quantization = "on" =>
               model_kwargs = (configDoc.load \ {"dtype"}) \cup {"quantization_config"}
        /\ configDoc.quantization # "on" => model_kwargs = configDoc.load
        /\ ~({"dtype", "quantization_config"} \subseteq model_kwargs)

\* atoms i..j of text all belong to chars
Run(text, i, j, chars) == \A k \in i..j : text[k] \in chars

\* candidate c is label l in any letter case, inside single quotes (any
\* number on each side), inside double quotes, inside whitespace
Wrapped(c, l) ==
    \E i1 \in 0..Len(c) : \E i2 \in i1..Len(c) : \E i3 \in i2..Len(c) :
        LET j3 == i3 + Len(l)
        IN  /\ j3 <= Len(c)
            /\ Lower(SubSeq(c, i3 + 1, j3)) = l
            /\ Run(c, 1, i1, Whitespace)
            /\ Run(c, i1 + 1, i2, {"\""})
            /\ Run(c, i2 + 1, i3, {"'"})
            /\ \E j2 \in j3..Len(c) : \E j1 \in j2..Len(c) :
                   /\ Run(c, j3 + 1, j2, {"'"})
                   /\ Run(c, j2 + 1, j1, {"\""})
                   /\ Run(c, j1 + 1, Len(c), Whitespace)

\* candidate c is label l in any letter case, with at most one quote
\* character on each side, inside whitespace
WrappedOnce(c, l) ==
    \E i1 \in 0..Len(c) : \E i2 \in i1..Len(c) :
        LET j2 == i2 + Len(l)
        IN  /\ j2 <= Len(c)
            /\ i2 - i1 <= 1
            /\ Lower(SubSeq(c, i2 + 1, j2)) = l
            /\ Run(c, 1, i1, Whitespace)
            /\ Run(c, i1 + 1, i2, {"\"", "'"})
            /\ \E j1 \in j2..Len(c) :
                   /\ j1 - j2 <= 1
                   /\ Run(c, j2 + 1, j1, {"\"", "'"})
                   /\ Run(c, j1 + 1, Len(c), Whitespace)

\* C16 as stated: a category is kept from a response exactly when some
\* candidate is that category after surrounding whitespace and one layer of
\* surrounding quote characters are taken away, so a candidate wrapped in
\* two layers of quotes is not kept.
C16_OneQuoteLayer ==
    (apc = "detected" /\ detector = None /\ ~Blank(response)) =>
        \A i \in 1..Len(categories) :
            InList(categories[i], detections) <=>
                \E k \in 1..Len(Candidates(response)) :
                    WrappedOnce(Candidates(response)[k], categories[i])

\* C16, amended: a category is kept from a response exactly when some
\* candidate is that category, in any letter case, wrapped in any number of
\* single quotes, these in any number of double quotes, these in whitespace:
\* all leading and trailing double quotes are stripped, then all leading and
\* trailing single quotes; a candidate with single quotes outside double
\* quotes keeps its double quotes and is not kept.
C16_AllQuoteLayers ==
    (apc = "detected" /\ detector = None /\ ~Blank(response)) =>
        /\ \A i \in 1..Len(categories) :
               InList(categories[i], detections) <=>
                   \E k \in 1..Len(Candidates(response)) :
                       Wrapped(Candidates(response)[k], categories[i])
        /\ response = <<"'", "\"", "v", "\"", "'">> => detections = << >>

\* C16 witness: a candidate in single quotes inside double quotes is kept
C16_Witness ==
    /\ apc = "detected"
    /\ detector = None
    /\ response = <<"\"", "'", "s", "'", "\"">>
    /\ detections = <<K_S>>

RECURSIVE SubstituteOnce(_, _)
\* the template with each placeholder atom replaced by its own text in one
\* pass, the inserted texts not being looked at again
SubstituteOnce(template, p) ==
    IF template = << >> THEN << >>
    ELSE (CASE Head(template) = "{categories}" -> p.categories_text
            [] Head(template) = "{doctrine}" -> p.doctrine
            [] OTHER -> <<Head(template)>>)
         \o SubstituteOnce(Tail(template), p)

\* C17: the composed report prompt is the template with the categories
\* placeholder replaced by the categories text and the doctrine placeholder
\* replaced by the doctrine text, once each: neither inserted text is
\* rewritten by the other substitution and the rest of the template stays.
C17_EachPlaceholderOnce ==
    apc = "composed" => prompt = SubstituteOnce(report_prompt, parts)

\* the calls main() makes when nothing ends it early, for the list of
\* paths the search returned
FullTrace(paths) ==
    <<Step("get_input_folder", NoPath), Step("get_input_paths", NoPath),
      Step("BDAPipeline", NoPath)>>
        \o [i \in 1..Len(paths) |-> Step("analyze", paths[i])]

\* the number of constructor calls in the trace
Constructions == Cardinality({i \in 1..Len(trace) : trace[i].op = "BDAPipeline"})

\* C14: the calls main() has made are always the beginning of: input
\* folder, input paths, one model construction, one analysis per path in
\* list order; the model is constructed at most once and only after both
\* resolution steps returned; a main() that ran to its end made all of these
\* calls; a main() that exited during input resolution constructed no model.
C14_MainOrder ==
    /\ Constructions <= 1
    /\ Constructions = 1 => (Len(trace) >= 3 /\ input_paths # << >>)
    /\ Len(trace) > 2 =>
           /\ Len(trace) <= Len(FullTrace(input_paths))
           /\ trace = SubSeq(FullTrace(input_paths), 1, Len(trace))
    /\ Len(trace) <= 2 =>
           trace = SubSeq(FullTrace(<< >>), 1, Len(trace))
    /\ mpc = "finished" => (trace = FullTrace(input_paths) /\ done = Len(input_paths))
    /\ mpc = "exited" =>
           /\ Constructions = 0
           /\ Len(trace) <= 2
           /\ legacy_detector = {}
           /\ legacy_vlm = {}

\* C14 witness: main() ran to its end over three paths of two patterns
C14_Witness ==
    /\ mpc = "finished"
    /\ Len(input_paths) = 3
    /\ input_paths[1].suffix # input_paths[3].suffix
    /\ done = 3

\* the paths of a list
Range(list) == {list[i] : i \in 1..Len(list)}

\* the files under the input folder, at any depth, whose extension is one
\* of the given extensions (in any letter case)
ImageFiles(valid) ==
    {e \in tree.entries : e.is_file /\ InList(LowerAtom(e.suffix), valid)}

\* inputs.get_input_paths on a folder returns exactly the image files, and
\* exits exactly when there is none
ListingExact ==
    (listing.called /\ tree.kind = "folder") =>
        /\ listing.exit <=> ImageFiles(INPUTS_VALID_EXT) = {}
        /\ Range(listing.files) = ImageFiles(INPUTS_VALID_EXT)
        /\ Len(listing.files) = Cardinality(ImageFiles(INPUTS_VALID_EXT))

\* C15: the list get_input_paths returned holds exactly the files under the
\* input folder whose extension is a valid image extension, each once, and
\* is not empty; the search exits exactly when there is no such file. This
\* is stated for the search main() uses (app.py) and for inputs.py.
C15_ExactlyImageFiles ==
    /\ mpc \notin {"start", "folder", "exited"} =>
           /\ input_paths # << >>
           /\ Range(input_paths) = ImageFiles(APP_VALID_EXT)
           /\ Len(input_paths) = Cardinality(ImageFiles(APP_VALID_EXT))
    /\ (mpc = "exited" /\ Len(trace) = 2) => ImageFiles(APP_VALID_EXT) = {}
    /\ ListingExact

\* the legacy BDAPipeline constructor has returned to main()
LegacyConstructed ==
    mpc \in {"built", "finished"} \/ (mpc = "raised" /\ Len(trace) > 3)

\* C18: once the legacy BDAPipeline constructor has returned, the
\* ObjectDetector holds its loaded processor and model and the VLM has its
\* model_id and system_prompt, so no analyze call fails on a missing
\* attribute of a half-initialised detector or VLM.
C18_ConstructedIsUsable ==
    /\ LegacyConstructed =>
           /\ {"processor", "model"} \subseteq legacy_detector
           /\ {"model_id", "system_prompt"} \subseteq legacy_vlm
    /\ merror # "AttributeError"

==============================================================================
